---- MODULE Spec2Model ----
(***************************************************************************)
(* Model of hetu-project/pohb: the vector clock (OrdinaryClock), the       *)
(* verification of stage messages and task results, the network hub       *)
(* (gossip and chain channels) and the compute node loop.                  *)
(***************************************************************************)
EXTENDS Integers, Sequences, FiniteSets, TLC

VARIABLES
    deps,       \* OrdinaryClock::new: the predecessor clocks, in iteration order
    id,         \* OrdinaryClock::new: the producing node id
    value,      \* OrdinaryClock::new: Some(the returned clock), None before the call
    ordering,   \* Some(what ge, partial_cmp and eq returned for every two clocks
                \* of deps), None before the calls
    task,       \* the Workflow loaded from the task description
    context,    \* the ClockClientContext given to verify
    subject,    \* the TaskStage / TaskResult under verification
    verdict,    \* what the verify functions returned for subject, in call order;
                \* None before the first call
    gossip,     \* Shared.gossip: the value the watch channel retains
    chain,      \* Shared.chain: the value the watch channel retains
    node_stage, \* compute: the stage name each node was started with (stage)
    node,       \* compute: "init", "idle" (subscribed, value seen), "ready"
                \* (subscribed, value not yet seen) or "dead" (main returned)
    client,     \* client: "init", "open", "waiting", "ready" (chain value not
                \* yet seen) or "done"
    last        \* the last operation, its argument and its outcome

clockVars == <<deps, id, value, ordering>>
verifyVars == <<task, context, subject, verdict>>
harnessVars == <<deps, id, value, ordering, subject, verdict>>
systemVars == <<gossip, chain, node_stage, node, client, last>>
vars == <<deps, id, value, ordering, task, context, subject, verdict,
          gossip, chain, node_stage, node, client, last>>

\* ---------------------------------------------------------------- bounds
MaxSeq == 2         \* largest counter in an input clock of OrdinaryClock::new
MaxDeps == 3        \* longest list of predecessor clocks
MaxStageSeq == 1    \* largest counter in a clock of a clocks map under verification

\* ---------------------------------------------------------------- data
NodeIds == {1, 2}
Stages == {"a", "b", "c"}
Payloads == {"hello", "out"}

\* Option<T>
None == <<>>
Some(x) == <<x>>

Max(x, y) == IF x >= y THEN x ELSE y

\* HashMap<NodeId, u32>: a function from the ids that have an entry
ClocksUpTo(n) == UNION {[S -> 0 .. n] : S \in SUBSET NodeIds}

SeqsUpTo(S, n) == UNION {[1 .. k -> S] : k \in 0 .. n}

new_genesis == <<>>

\* self.get(id).copied().unwrap_or_default()
GetOrDefault(clock, n) == IF n \in DOMAIN clock THEN clock[n] ELSE 0

\* the inner loop without the max: a predecessor's count overwrites the count
MergeDep_overwrite(val, dep, nid) ==
    [n \in DOMAIN val \cup DOMAIN dep |->
        IF n \in DOMAIN dep
        THEN dep[n] + (IF n = nid THEN 1 ELSE 0)
        ELSE val[n]]

\* one pass of the inner loop over a predecessor: every entry of dep is
\* max-merged into value and bumped when it is the producing node's
MergeDep(val, dep, nid) ==
    [n \in DOMAIN val \cup DOMAIN dep |->
        IF n \in DOMAIN dep
        THEN Max(GetOrDefault(val, n), dep[n]) + (IF n = nid THEN 1 ELSE 0)
        ELSE val[n]]

RECURSIVE FoldDeps(_, _, _)
FoldDeps(val, ds, nid) ==
    IF ds = <<>> THEN val
    ELSE FoldDeps(MergeDep(val, Head(ds), nid), Tail(ds), nid)

OrdinaryClockNew(ds, nid) == FoldDeps(<<>>, ds, nid)

is_genesis(clock) == \A n \in DOMAIN clock : clock[n] = 0

\* ge over the entries of self instead of other's
ge_self_keys(self, other) ==
    \A n \in DOMAIN self : self[n] >= GetOrDefault(other, n)

\* ge without the default for an absent entry
ge_present(self, other) ==
    \A n \in DOMAIN other : n \in DOMAIN self /\ self[n] >= other[n]

\* ge with the comparison strict
ge_strict(self, other) ==
    \A n \in DOMAIN other : GetOrDefault(self, n) > other[n]

ge(self, other) ==
    \A n \in DOMAIN other : GetOrDefault(self, n) >= other[n]

\* partial_cmp with the (false, true) arm missing
partial_cmp_no_less(self, other) ==
    CASE ge(self, other) /\ ge(other, self) -> "Equal"
      [] ge(self, other) /\ ~ge(other, self) -> "Greater"
      [] OTHER -> "None"

\* partial_cmp with the (true, true) arm answering Greater
partial_cmp_equal_as_greater(self, other) ==
    CASE ge(self, other) -> "Greater"
      [] ~ge(self, other) /\ ge(other, self) -> "Less"
      [] OTHER -> "None"

partial_cmp(self, other) ==
    CASE ge(self, other) /\ ge(other, self) -> "Equal"
      [] ge(self, other) /\ ~ge(other, self) -> "Greater"
      [] ~ge(self, other) /\ ge(other, self) -> "Less"
      [] OTHER -> "None"

eq(self, other) == partial_cmp(self, other) = "Equal"

\* OrdinaryContext::prove: the inputs of the predecessors and the output are ignored
prove(nid, predecessors, output) ==
    OrdinaryClockNew([k \in 1 .. Len(predecessors) |-> predecessors[k][1]], nid)

\* ---------------------------------------------------------------- the clock harness
ClockInit ==
    /\ deps \in SeqsUpTo(ClocksUpTo(MaxSeq), MaxDeps)
    /\ id \in NodeIds
    /\ value = None
    /\ ordering = None

CallNew ==
    /\ value = None
    /\ value' = Some(prove(id, [k \in 1 .. Len(deps) |-> <<deps[k], "hello">>], "out"))
    /\ UNCHANGED <<deps, id, ordering>>

\* the comparisons of the clocks of deps with each other
CallPartialCmp ==
    /\ ordering = None
    /\ deps # <<>>
    /\ ordering' =
          Some([ge |-> [i, j \in DOMAIN deps |-> ge(deps[i], deps[j])],
                cmp |-> [i, j \in DOMAIN deps |-> partial_cmp(deps[i], deps[j])],
                eq |-> [i, j \in DOMAIN deps |-> eq(deps[i], deps[j])]])
    /\ UNCHANGED <<deps, id, value>>

\* the returned clock travels on as the one predecessor of the next stage's
\* prove, by some node (compute.rs: &clocks[name])
Feed ==
    /\ value # None
    /\ \A n \in DOMAIN value[1] : value[1][n] <= MaxSeq
    /\ deps' = <<value[1]>>
    /\ id' \in NodeIds
    /\ value' = None
    /\ ordering' = None

VerifyIdle ==
    /\ task = [stages |-> <<>>]
    /\ context = "Ordinary"
    /\ subject = None
    /\ verdict = None

NoOp == [op |-> "none", who |-> 0, arg |-> None, outcome |-> "none"]

SystemIdle ==
    /\ gossip = None
    /\ chain = None
    /\ node_stage = [n \in NodeIds |-> "a"]
    /\ node = [n \in NodeIds |-> "init"]
    /\ client = "init"
    /\ last = NoOp

InitClock == ClockInit /\ VerifyIdle /\ SystemIdle
NextClock ==
    \/ CallNew /\ UNCHANGED verifyVars /\ UNCHANGED systemVars
    \/ CallPartialCmp /\ UNCHANGED verifyVars /\ UNCHANGED systemVars
    \/ Feed /\ UNCHANGED verifyVars /\ UNCHANGED systemVars
SpecClock == InitClock /\ [][NextClock]_vars

\* ---------------------------------------------------------------- verification
\* StageSource
Start == [tag |-> "Start", name |-> ""]
Name(stage) == [tag |-> "Name", name |-> stage]

Workflows ==
    {[stages |-> <<>>], [stages |-> <<"a">>], [stages |-> <<"a", "b">>],
     [stages |-> <<"a", "b", "c">>], [stages |-> <<"c", "a", "b">>]}

\* HashMap<String, C>: a function from the stages that have an entry
ClockMaps(CS) == UNION {[S -> CS] : S \in SUBSET Stages}

\* anyhow::Result<()> of the verify functions, with the context.verify calls made
Ok(calls) == [result |-> "Ok", calls |-> calls]
Err(kind, calls) == [result |-> kind, calls |-> calls]

\* implementations of ClockClientContext::verify: the two of the crate accept
\* everything ("Ordinary"); "Bound" stands for a context with a proof part, which
\* authenticates non-genesis clocks for the output "hello" only
Contexts == {"Ordinary", "Bound"}
ContextVerify(ctx, clock, output) ==
    IF ctx = "Ordinary" THEN TRUE
    ELSE output = "hello" /\ ~is_genesis(clock)

\* clocks.get(stage) followed by unwrap_or_default
get_or_default(clocks, stage) ==
    IF stage \in DOMAIN clocks THEN Some(clocks[stage]) ELSE Some(new_genesis)

\* clocks.get(stage)
get(clocks, stage) == IF stage \in DOMAIN clocks THEN Some(clocks[stage]) ELSE None

\* the loop of lib.rs verify over task.stages.windows(2), from window k on
RECURSIVE VerifyWindows(_, _, _, _, _, _)
VerifyWindows(clocks, output_stage, output, tsk, ctx, k) ==
    IF k >= Len(tsk.stages) THEN Ok(<<>>)
    ELSE LET stage == tsk.stages[k]
             next_stage == tsk.stages[k + 1]
             clock == get(clocks, stage)
             next_clock == get(clocks, next_stage)
         IN  IF clock = None THEN Err("MissingClock", <<>>)
             ELSE IF next_clock = None THEN Err("MissingClock", <<>>)
             ELSE IF partial_cmp(next_clock[1], clock[1]) # "Greater"
                  THEN Err("ConditionFailed", <<>>)
             ELSE IF next_stage = output_stage
                  THEN IF ~ContextVerify(ctx, next_clock[1], output)
                       THEN Err("ContextError", <<<<next_clock[1], output>>>>)
                       ELSE LET rest == VerifyWindows(clocks, output_stage, output,
                                                      tsk, ctx, k + 1)
                            IN  [rest EXCEPT !.calls =
                                    <<<<next_clock[1], output>>>> \o @]
                  ELSE VerifyWindows(clocks, output_stage, output, tsk, ctx, k + 1)

verify(clocks, output_stage, output, tsk, ctx) ==
    VerifyWindows(clocks, output_stage, output, tsk, ctx, 1)

\* TaskStage::verify without the Start arm
TaskStageVerify_no_start(self, tsk, ctx) ==
    verify(self.clocks, self.source.name, self.input, tsk, ctx)

TaskStageVerify(self, tsk, ctx) ==
    IF self.source = Start THEN Ok(<<>>)
    ELSE verify(self.clocks, self.source.name, self.input, tsk, ctx)

\* TaskResult::verify with the output stage taken as the first stage (first()
\* for last())
TaskResultVerify_first(self, tsk, ctx) ==
    IF tsk.stages = <<>> THEN Ok(<<>>)
    ELSE verify(self.clocks, tsk.stages[1], self.output, tsk, ctx)

TaskResultVerify(self, tsk, ctx) ==
    IF tsk.stages = <<>> THEN Ok(<<>>)
    ELSE verify(self.clocks, tsk.stages[Len(tsk.stages)], self.output, tsk, ctx)

\* chain.rs verify: the same loop, the terminal test being
\* Some(next_stage) == task.stages.last()
RECURSIVE ChainVerifyWindows(_, _, _, _)
ChainVerifyWindows(task_result, tsk, ctx, k) ==
    IF k >= Len(tsk.stages) THEN Ok(<<>>)
    ELSE LET stage == tsk.stages[k]
             next_stage == tsk.stages[k + 1]
             clock == get(task_result.clocks, stage)
             next_clock == get(task_result.clocks, next_stage)
         IN  IF clock = None THEN Err("MissingClock", <<>>)
             ELSE IF next_clock = None THEN Err("MissingClock", <<>>)
             ELSE IF partial_cmp(next_clock[1], clock[1]) # "Greater"
                  THEN Err("ConditionFailed", <<>>)
             ELSE IF next_stage = tsk.stages[Len(tsk.stages)]
                  THEN IF ~ContextVerify(ctx, next_clock[1], task_result.output)
                       THEN Err("ContextError", <<<<next_clock[1], task_result.output>>>>)
                       ELSE LET rest == ChainVerifyWindows(task_result, tsk, ctx, k + 1)
                            IN  [rest EXCEPT !.calls =
                                    <<<<next_clock[1], task_result.output>>>> \o @]
                  ELSE ChainVerifyWindows(task_result, tsk, ctx, k + 1)

chain_verify(task_result, tsk, ctx) == ChainVerifyWindows(task_result, tsk, ctx, 1)

\* ---------------------------------------------------------------- the verify harness
TaskIds == {42}
Sources == {Start} \cup {Name(s) : s \in Stages}

TaskStages(CS) ==
    [id : TaskIds, source : Sources, input : Payloads, clocks : ClockMaps(CS)]
TaskResults(CS) ==
    [id : TaskIds, output : Payloads, clocks : ClockMaps(CS)]

VerifyInit ==
    /\ task \in Workflows
    /\ context \in Contexts
    /\ subject \in
          {Some([kind |-> "TaskStage", message |-> m]) :
              m \in TaskStages(ClocksUpTo(MaxStageSeq))}
          \cup {Some([kind |-> "TaskResult", message |-> m]) :
              m \in TaskResults(ClocksUpTo(MaxStageSeq))}
    /\ verdict = None

\* the function has returned for subject
Called(by) == \E k \in DOMAIN verdict : verdict[k].by = by

\* message.verify(&task, &context) on a stage message
CallTaskStageVerify ==
    /\ ~Called("TaskStage::verify")
    /\ subject[1].kind = "TaskStage"
    /\ verdict' = Append(verdict,
                       [by |-> "TaskStage::verify",
                        ret |-> TaskStageVerify(subject[1].message, task, context)])
    /\ UNCHANGED <<task, context, subject>>

\* TaskResult::verify on a task result
CallTaskResultVerify ==
    /\ ~Called("TaskResult::verify")
    /\ subject[1].kind = "TaskResult"
    /\ verdict' = Append(verdict,
                       [by |-> "TaskResult::verify",
                        ret |-> TaskResultVerify(subject[1].message, task, context)])
    /\ UNCHANGED <<task, context, subject>>

\* chain::verify on a task result
CallChainVerify ==
    /\ ~Called("chain::verify")
    /\ subject[1].kind = "TaskResult"
    /\ verdict' = Append(verdict,
                       [by |-> "chain::verify",
                        ret |-> chain_verify(subject[1].message, task, context)])
    /\ UNCHANGED <<task, context, subject>>

ClockIdle ==
    /\ deps = <<>>
    /\ id = 1
    /\ value = None
    /\ ordering = None

InitVerify == VerifyInit /\ ClockIdle /\ SystemIdle
NextVerify ==
    \/ CallTaskStageVerify /\ UNCHANGED clockVars /\ UNCHANGED systemVars
    \/ CallTaskResultVerify /\ UNCHANGED clockVars /\ UNCHANGED systemVars
    \/ CallChainVerify /\ UNCHANGED clockVars /\ UNCHANGED systemVars
SpecVerify == InitVerify /\ [][NextVerify]_vars

\* ---------------------------------------------------------------- the system
\* network (the hub), compute (one process per node id) and client

SystemWorkflows == {[stages |-> <<"a", "b">>], [stages |-> <<"a", "b", "c">>]}

\* the source taken as the workflow's first stage (next() for last())
SourceOf_first(tsk, stg) ==
    LET at == {k \in 1 .. Len(tsk.stages) : tsk.stages[k] = stg}
        taken == IF at = {} THEN Len(tsk.stages)
                 ELSE (CHOOSE k \in at : \A j \in at : k <= j) - 1
    IN  IF taken = 0 THEN Start ELSE Name(tsk.stages[1])

\* compute.rs: the source a node listens for, the stage before its own
\* (take_while(other_stage != stage).last()), Start when there is none
SourceOf(tsk, stg) ==
    LET at == {k \in 1 .. Len(tsk.stages) : tsk.stages[k] = stg}
        taken == IF at = {} THEN Len(tsk.stages)
                 ELSE (CHOOSE k \in at : \A j \in at : k <= j) - 1
    IN  IF taken = 0 THEN Start ELSE Name(tsk.stages[taken])

\* what the stage program can do with an input
ExecOutputs == {"out"}

\* the message of client.rs
StartMessage == [id |-> 42, source |-> Start, input |-> "hello", clocks |-> <<>>]

\* clocks maps of the messages other parties post to the hub
Clock1 == (1 :> 1)
Clock2 == (2 :> 1)
Clock12 == (1 :> 1) @@ (2 :> 1)
Clock22 == (1 :> 2) @@ (2 :> 1)
SampleClockMaps ==
    {<<>>,
     ("a" :> Clock1),
     ("b" :> Clock12),
     ("a" :> Clock1) @@ ("b" :> Clock12),
     ("a" :> Clock1) @@ ("b" :> Clock2),
     ("a" :> Clock1) @@ ("b" :> Clock12) @@ ("c" :> Clock22)}

ForeignMessages ==
    [id : TaskIds, source : Sources, input : {"hello"}, clocks : SampleClockMaps]
Proposals ==
    [id : TaskIds, output : {"out"}, clocks : SampleClockMaps]

SystemInit ==
    /\ task \in SystemWorkflows
    /\ context = "Ordinary"
    /\ gossip = None
    /\ chain = None
    /\ node_stage \in [NodeIds -> {task.stages[k] : k \in 1 .. Len(task.stages)}]
    /\ node = [n \in NodeIds |-> "init"]
    /\ client = "init"
    /\ last = NoOp

Subscribed(n) == node[n] \in {"idle", "ready"}

\* tokio watch Sender::send(Some(message)) on the gossip channel: an error, the
\* value dropped, when there is no receiver; else the value is replaced and
\* every receiver sees a change
GossipSend(message, nodes) ==
    IF \A n \in NodeIds : nodes[n] \notin {"idle", "ready"}
    THEN gossip' = gossip /\ node' = nodes
    ELSE /\ gossip' = Some(message)
         /\ node' = [n \in NodeIds |->
                        IF nodes[n] \in {"idle", "ready"} THEN "ready" ELSE nodes[n]]

\* network.rs gossip_subscribe, for the EventSource of a compute node: the
\* WatchStream yields the current value first
gossip_subscribe(n) ==
    /\ node[n] = "init"
    /\ node' = [node EXCEPT ![n] = "ready"]
    /\ last' = [op |-> "gossip_subscribe", who |-> n, arg |-> None, outcome |-> "open"]
    /\ UNCHANGED <<gossip, chain, node_stage, client>>

\* network.rs gossip_publish, posted by a party outside
gossip_publish(message) ==
    /\ GossipSend(message, node)
    /\ last' = [op |-> "gossip_publish", who |-> 0, arg |-> Some(message),
                outcome |-> "200"]
    /\ UNCHANGED <<chain, node_stage, client>>

\* compute.rs: a verification error ends main (? for the warn! and continue)
OnVerifyError_return(nodes, n) == [nodes EXCEPT ![n] = "dead"]

\* compute.rs: a verification error is logged and the loop continues with the
\* next event
OnVerifyError(nodes, n) == [nodes EXCEPT ![n] = "idle"]

\* compute.rs: an error of spawn, write_all, wait_with_output or of the exit
\* status is returned from main by ? / ensure!: the process ends and its
\* EventSource is dropped
OnExecutionError(nodes, n) == [nodes EXCEPT ![n] = "dead"]

\* the emitted message with a clocks map of the node's own clock only
Emit_own_clock_only(n, message, source, output) ==
    [id |-> message.id,
     source |-> Name(node_stage[n]),
     input |-> output,
     clocks |-> (node_stage[n] :>
                    prove(n, IF source = Start THEN <<>>
                             ELSE <<<<message.clocks[source.name], message.input>>>>,
                          output))]

\* compute.rs: the message a node emits for an accepted message and the output
\* of its stage program: the clock proved from the preceding stage's clock is
\* inserted into the incoming clocks map under the node's stage
Emit(n, message, source, output) ==
    LET predecessors == IF source = Start THEN <<>>
                        ELSE <<<<message.clocks[source.name], message.input>>>>
        clock == prove(n, predecessors, output)
        clocks == [s \in DOMAIN message.clocks \cup {node_stage[n]} |->
                      IF s = node_stage[n] THEN clock ELSE message.clocks[s]]
    IN  [id |-> message.id,
         source |-> Name(node_stage[n]),
         input |-> output,
         clocks |-> clocks]

\* compute.rs: one turn of the loop of main for the next event of the stream
\* (None values are filtered out by the hub)
Handle(n) ==
    /\ node[n] = "ready"
    /\ IF gossip = None
       THEN /\ node' = [node EXCEPT ![n] = "idle"]
            /\ last' = [op |-> "handle", who |-> n, arg |-> None, outcome |-> "no event"]
            /\ UNCHANGED gossip
       ELSE LET message == gossip[1]
                source == SourceOf(task, node_stage[n])
                seen == [node EXCEPT ![n] = "idle"]
            IN  IF message.source # source
                THEN /\ node' = seen
                     /\ last' = [op |-> "handle", who |-> n, arg |-> gossip,
                                 outcome |-> "skipped"]
                     /\ UNCHANGED gossip
                ELSE IF TaskStageVerify(message, task, context).result # "Ok"
                THEN /\ node' = OnVerifyError(node, n)
                     /\ last' = [op |-> "handle", who |-> n, arg |-> gossip,
                                 outcome |-> "verify failed"]
                     /\ UNCHANGED gossip
                ELSE \/ \* spawn, write_all, wait_with_output or the exit status
                        \* fails: main returns the error
                        /\ node' = OnExecutionError(node, n)
                        /\ last' = [op |-> "handle", who |-> n, arg |-> gossip,
                                    outcome |-> "execution failed"]
                        /\ UNCHANGED gossip
                     \/ \E output \in ExecOutputs :
                          IF source # Start /\ source.name \notin DOMAIN message.clocks
                          THEN \* &clocks[name] panics
                               /\ node' = [node EXCEPT ![n] = "dead"]
                               /\ last' = [op |-> "handle", who |-> n, arg |-> gossip,
                                           outcome |-> "panicked"]
                               /\ UNCHANGED gossip
                          ELSE /\ GossipSend(Emit(n, message, source, output), seen)
                               /\ last' = [op |-> "handle", who |-> n, arg |-> gossip,
                                           outcome |-> "published"]
    /\ UNCHANGED <<chain, node_stage, client>>

\* network.rs chain_subscribe, for the EventSource of client.rs (Event::Open)
chain_subscribe ==
    /\ client = "init"
    /\ client' = "open"
    /\ last' = [op |-> "chain_subscribe", who |-> 0, arg |-> None, outcome |-> "open"]
    /\ UNCHANGED <<gossip, chain, node_stage, node>>

\* client.rs: the task is posted to the gossip channel; the chain stream has
\* its current value still to yield
ClientPublish ==
    /\ client = "open"
    /\ GossipSend(StartMessage, node)
    /\ client' = "ready"
    /\ last' = [op |-> "client_publish", who |-> 0, arg |-> Some(StartMessage),
                outcome |-> "200"]
    /\ UNCHANGED <<chain, node_stage>>

\* client.rs: the loop over the chain events; every id is the task's id here
ClientReceive ==
    /\ client = "ready"
    /\ client' = IF chain = None THEN "waiting" ELSE "done"
    /\ last' = [op |-> "client_receive", who |-> 0, arg |-> chain,
                outcome |-> IF chain = None THEN "no event" ELSE "task done"]
    /\ UNCHANGED <<gossip, chain, node_stage, node>>

\* chain_propose without the early return: the rejected result is sent too
chain_propose_no_return(message) ==
    /\ last' = [op |-> "chain_propose", who |-> 0, arg |-> Some(message),
                outcome |-> IF chain_verify(message, task, context).result # "Ok"
                            THEN "403" ELSE "200"]
    /\ IF client \in {"open", "waiting", "ready"}
       THEN /\ chain' = Some(message)
            /\ client' = IF client = "waiting" THEN "ready" ELSE client
       ELSE UNCHANGED <<chain, client>>
    /\ UNCHANGED <<gossip, node_stage, node>>

\* network.rs chain_propose
chain_propose(message) ==
    /\ IF chain_verify(message, task, context).result # "Ok"
       THEN /\ last' = [op |-> "chain_propose", who |-> 0, arg |-> Some(message),
                        outcome |-> "403"]
            /\ UNCHANGED <<chain, client>>
       ELSE /\ last' = [op |-> "chain_propose", who |-> 0, arg |-> Some(message),
                        outcome |-> "200"]
            /\ IF client \in {"open", "waiting", "ready"}
               THEN /\ chain' = Some(message)
                    /\ client' = IF client = "waiting" THEN "ready" ELSE client
               ELSE UNCHANGED <<chain, client>>
    /\ UNCHANGED <<gossip, node_stage, node>>

HarnessIdle == ClockIdle /\ subject = None /\ verdict = None

Init == SystemInit /\ HarnessIdle
Next ==
    \/ \E n \in NodeIds : gossip_subscribe(n) /\ UNCHANGED <<task, context>> /\ UNCHANGED harnessVars
    \/ \E m \in ForeignMessages : gossip_publish(m) /\ UNCHANGED <<task, context>> /\ UNCHANGED harnessVars
    \/ \E n \in NodeIds : Handle(n) /\ UNCHANGED <<task, context>> /\ UNCHANGED harnessVars
    \/ chain_subscribe /\ UNCHANGED <<task, context>> /\ UNCHANGED harnessVars
    \/ ClientPublish /\ UNCHANGED <<task, context>> /\ UNCHANGED harnessVars
    \/ ClientReceive /\ UNCHANGED <<task, context>> /\ UNCHANGED harnessVars
    \/ \E m \in Proposals : chain_propose(m) /\ UNCHANGED <<task, context>> /\ UNCHANGED harnessVars
Spec == Init /\ [][Next]_vars

\* ================================================================ properties
\* The order on clocks as the specification words it: counts compared entry by
\* entry, an absent entry counting 0.
Count(clock, n) == IF n \in DOMAIN clock THEN clock[n] ELSE 0
Dominates(x, y) == \A n \in NodeIds : Count(x, n) >= Count(y, n)
StrictlyAfter(x, y) == Dominates(x, y) /\ ~Dominates(y, x)
Incomparable(x, y) == ~Dominates(x, y) /\ ~Dominates(y, x)

RECURSIVE MaxCount(_, _)
MaxCount(ds, n) ==
    IF ds = <<>> THEN 0 ELSE Max(Count(Head(ds), n), MaxCount(Tail(ds), n))

\* C2: the clock returned by OrdinaryClock::new / OrdinaryContext::prove is
\* strictly Greater than every predecessor clock, for every list of
\* predecessors and every producing node id.
C2_MergeAdvanceStrictlyGreater ==
    value # None =>
        \A k \in 1 .. Len(deps) : partial_cmp(value[1], deps[k]) = "Greater"

\* C3: the returned clock holds, for every node id, the maximum of the
\* predecessors' counts, and for the producing node id that maximum plus
\* exactly one (also when the id occurs in several, or in no, predecessor).
C3_MergeAdvanceValue ==
    value # None =>
        /\ \A n \in NodeIds \ {id} : Count(value[1], n) = MaxCount(deps, n)
        /\ Count(value[1], id) = MaxCount(deps, id) + 1

\* ---------------------------------------------------------------- verification
Judged == verdict # None
Ret == verdict[1].ret
Kind == subject[1].kind
Msg == subject[1].message
Payload == IF Kind = "TaskStage" THEN Msg.input ELSE Msg.output
StageSet == {task.stages[k] : k \in 1 .. Len(task.stages)}
LastStage == task.stages[Len(task.stages)]
Pairs == 1 .. (Len(task.stages) - 1)
HasClock(stage) == stage \in DOMAIN Msg.clocks

\* the stage whose output the subject carries
HasTerminal ==
    \/ Kind = "TaskResult" /\ task.stages # <<>>
    \/ Kind = "TaskStage" /\ Msg.source.tag = "Name" /\ Msg.source.name \in StageSet
Terminal == IF Kind = "TaskResult" THEN LastStage ELSE Msg.source.name

\* C4: a verification of a task result (workflow of at least one stage) or
\* of a stage message from a stage of the workflow succeeds only if the
\* context's verify accepts the terminal stage's clock with the payload.
C4_TerminalAuthenticity ==
    (Judged /\ HasTerminal /\ Ret.result = "Ok") =>
        /\ HasClock(Terminal)
        /\ ContextVerify(context, Msg.clocks[Terminal], Payload)

\* a clocks map with every stage's clock strictly after its predecessor's
CausallyOrdered ==
    /\ \A s \in StageSet : HasClock(s)
    /\ \A k \in Pairs :
          StrictlyAfter(Msg.clocks[task.stages[k + 1]], Msg.clocks[task.stages[k]])

CarriesLastStage ==
    \/ Kind = "TaskResult"
    \/ Kind = "TaskStage" /\ task.stages # <<>> /\ Msg.source = Name(LastStage)

\* C5: verification returns Ok for a task result, or a stage message from the
\* last stage, whose clocks map has a clock for every stage, each strictly
\* after its predecessor's, when the context accepts the last clock with the
\* payload.
C5_OrderedClocksVerify ==
    (/\ Judged
     /\ CarriesLastStage
     /\ CausallyOrdered
     /\ task.stages # <<>> => ContextVerify(context, Msg.clocks[LastStage], Payload))
        => Ret.result = "Ok"

C5_Witness ==
    /\ Judged
    /\ Kind = "TaskStage"
    /\ task.stages = <<"a", "b", "c">>
    /\ Msg.source = Name("c")
    /\ context = "Bound"
    /\ CausallyOrdered
    /\ Ret.result = "Ok"

NotStart == Kind = "TaskResult" \/ Msg.source # Start

\* C6: verification of a task result or of a stage message not from Start
\* fails when some consecutive pair of the workflow has both clocks and the
\* later stage's clock is not strictly after the earlier stage's.
C6_CausalityViolationFails ==
    (/\ Judged
     /\ NotStart
     /\ \E k \in Pairs :
          /\ HasClock(task.stages[k]) /\ HasClock(task.stages[k + 1])
          /\ ~StrictlyAfter(Msg.clocks[task.stages[k + 1]], Msg.clocks[task.stages[k]]))
        => Ret.result # "Ok"

C6_Witness ==
    /\ Judged
    /\ NotStart
    /\ task.stages = <<"a", "b">>
    /\ HasClock("a") /\ HasClock("b")
    /\ Incomparable(Msg.clocks["b"], Msg.clocks["a"])
    /\ Ret.result = "ConditionFailed"

MissingSomePair ==
    \E k \in Pairs : ~HasClock(task.stages[k]) \/ ~HasClock(task.stages[k + 1])

\* the stage named as the one whose output the subject carries
OutputStage == IF Kind = "TaskResult" THEN LastStage ELSE Msg.source.name

\* the pairs before pair k have both clocks, in strict order, and the context
\* accepts the clock of the one that ends at the output stage
EarlierPairsPass(k) ==
    \A j \in 1 .. (k - 1) :
        /\ HasClock(task.stages[j]) /\ HasClock(task.stages[j + 1])
        /\ StrictlyAfter(Msg.clocks[task.stages[j + 1]], Msg.clocks[task.stages[j]])
        /\ task.stages[j + 1] = OutputStage
              => ContextVerify(context, Msg.clocks[task.stages[j + 1]], Payload)

\* C7 as stated: against a workflow containing the consecutive pair (a, b),
\* a task result or a stage message from b whose clocks map lacks a or b
\* fails with the missing-clock error.
C7_Original ==
    (/\ Judged
     /\ Kind = "TaskResult" \/ Msg.source = Name("b")
     /\ \E k \in Pairs : task.stages[k] = "a" /\ task.stages[k + 1] = "b"
     /\ ~HasClock("a") \/ ~HasClock("b"))
        => Ret.result = "MissingClock"

\* C7: verification of a task result or of a stage message not from Start
\* fails when a stage of some consecutive pair has no clock, and the error is
\* the missing-clock error when all the pairs before that pair pass.
C7_MissingClockFails ==
    (Judged /\ NotStart) =>
        /\ MissingSomePair => Ret.result # "Ok"
        /\ (\E k \in Pairs :
               /\ ~HasClock(task.stages[k]) \/ ~HasClock(task.stages[k + 1])
               /\ EarlierPairsPass(k))
              => Ret.result = "MissingClock"

C7_Witness ==
    /\ Judged
    /\ Kind = "TaskStage" /\ Msg.source = Name("b")
    /\ task.stages = <<"a", "b", "c">>
    /\ HasClock("a") /\ ~HasClock("b")
    /\ Ret.result = "MissingClock"

\* C8: a stage message with source Start verifies successfully, whatever the
\* workflow, the context and the clocks map.
C8_StartAlwaysVerifies ==
    (Judged /\ Kind = "TaskStage" /\ Msg.source = Start) => Ret.result = "Ok"

C8_Witness ==
    /\ Judged
    /\ Kind = "TaskStage" /\ Msg.source = Start
    /\ context = "Bound" /\ Msg.input = "out"
    /\ task.stages = <<"a", "b">>
    /\ HasClock("a") /\ HasClock("b")
    /\ ~StrictlyAfter(Msg.clocks["b"], Msg.clocks["a"])
    /\ Ret.result = "Ok"

\* ---------------------------------------------------------------- the system
\* the verification protocol under the accept-all context of the binaries:
\* both clocks of every consecutive pair present, the later strictly after
PairsPass(clocks) ==
    \A k \in Pairs :
        /\ task.stages[k] \in DOMAIN clocks /\ task.stages[k + 1] \in DOMAIN clocks
        /\ StrictlyAfter(clocks[task.stages[k + 1]], clocks[task.stages[k]])

StageMessagePasses(message) == message.source = Start \/ PairsPass(message.clocks)

\* the stage right before the node's stage in the workflow, Start for the first
PrecedingSource(n) ==
    IF node_stage[n] = task.stages[1] THEN Start
    ELSE Name(task.stages[(CHOOSE k \in 1 .. Len(task.stages) :
                              task.stages[k] = node_stage[n]) - 1])

ChainSubscribed == client \in {"open", "waiting", "ready"}

Scenario ==
    /\ task.stages = <<"a", "b">>
    /\ node_stage = (1 :> "a") @@ (2 :> "b")

HandledBy(n) ==
    last'.op = "handle" /\ last'.who = n /\ last'.outcome # "execution failed"

\* C1: on the workflow [a, b] node 1 (stage a) turns the client's message into
\* one from a with clocks {a: {1:1}}; node 2 (stage b) accepts that message
\* and publishes clocks {a: {1:1}, b: {1:1, 2:1}}; a task result with those
\* clocks is accepted by the chain and broadcast.
C1_EndToEnd ==
    [][Scenario =>
        /\ (gossip = Some(StartMessage) /\ HandledBy(1)) =>
              /\ last'.outcome = "published"
              /\ gossip' = Some([id |-> 42, source |-> Name("a"), input |-> "out",
                                 clocks |-> ("a" :> Clock1)])
        /\ (/\ gossip # None
            /\ gossip[1].source = Name("a")
            /\ gossip[1].clocks = ("a" :> Clock1)
            /\ HandledBy(2)) =>
              /\ last'.outcome = "published"
              /\ gossip'[1].source = Name("b")
              /\ gossip'[1].clocks = ("a" :> Clock1) @@ ("b" :> Clock12)
        /\ (/\ last'.op = "chain_propose"
            /\ last'.arg[1].clocks = ("a" :> Clock1) @@ ("b" :> Clock12)) =>
              /\ last'.outcome = "200"
              /\ ChainSubscribed => chain' = last'.arg
      ]_vars

\* C9: a proposed task result that fails verification is answered with a
\* rejection and changes neither the chain channel's value nor what its
\* subscribers have to read; one that passes is accepted and becomes the
\* value the subscribers read; the chain channel only ever holds results that
\* pass verification.
C9_ChainGate ==
    /\ [](chain # None => PairsPass(chain[1].clocks))
    /\ [][last'.op = "chain_propose" =>
            IF PairsPass(last'.arg[1].clocks)
            THEN /\ last'.outcome = "200"
                 /\ ChainSubscribed =>
                       /\ chain' = last'.arg
                       /\ client' \in {"open", "ready"}
            ELSE /\ last'.outcome = "403"
                 /\ chain' = chain
                 /\ client' = client
       ]_vars

C9_Witness ==
    /\ last.op = "chain_propose"
    /\ last.outcome = "403"
    /\ chain # None
    /\ chain # last.arg
    /\ client = "ready"

\* C10: a node executes and republishes only for a message whose source is the
\* stage right before its own (Start for the first stage) and that passes
\* verification; a message with another source is skipped, nothing published.
C10_NodeAcceptance ==
    [][(last'.op = "handle" /\ gossip # None) =>
          /\ last'.outcome \in {"published", "execution failed", "panicked"} =>
                /\ gossip[1].source = PrecedingSource(last'.who)
                /\ StageMessagePasses(gossip[1])
          /\ gossip[1].source # PrecedingSource(last'.who) =>
                /\ last'.outcome = "skipped"
                /\ gossip' = gossip
      ]_vars

C10_Witness ==
    /\ last.op = "handle"
    /\ last.outcome = "published"
    /\ task.stages = <<"a", "b", "c">>
    /\ node_stage[last.who] = "c"
    /\ last.arg[1].source = Name("b")
    /\ gossip[1].source = Name("c")

Alive(n) == node[n] \in {"idle", "ready"}

\* C11: an execution failure while a node processes a message leaves the node
\* alive and subscribed, ready for the messages delivered after it.
C11_ExecutionFailureLocal ==
    (last.op = "handle" /\ last.outcome = "execution failed") => Alive(last.who)

\* C12: a message from the node's source that fails verification is
\* discarded, nothing executed or published for it, and the node stays in its
\* receive loop: a valid message from its source read afterwards is executed.
C12_VerifyFailureLocal ==
    [][(last'.op = "handle" /\ gossip # None
        /\ gossip[1].source = PrecedingSource(last'.who)) =>
          IF StageMessagePasses(gossip[1])
          THEN last'.outcome \in {"published", "execution failed"}
          ELSE /\ last'.outcome = "verify failed"
               /\ gossip' = gossip
               /\ node'[last'.who] = "idle"
               /\ \A n \in NodeIds \ {last'.who} : node'[n] = node[n]
      ]_vars

C12_Witness ==
    /\ last.op = "handle"
    /\ last.outcome = "verify failed"
    /\ node[last.who] = "idle"
    /\ last.arg[1].source = Name("a")
    /\ ~PairsPass(last.arg[1].clocks)

\* the channel holds a message sent while the nodes now "ready" were subscribed
JustPublished ==
    \/ last.op \in {"gossip_publish", "client_publish"} /\ gossip = last.arg
    \/ last.op = "handle" /\ last.outcome = "published"

\* C13: a message published while a node is subscribed is delivered to it:
\* until the node has read it, no other publish takes its place.
C13_EveryPublishDelivered ==
    [][\A n \in NodeIds :
          (JustPublished /\ node[n] = "ready"
           /\ ~(last'.op = "handle" /\ last'.who = n)) => gossip' = gossip
      ]_vars

\* C14: each channel retains nothing or the most recently published value:
\* its value changes only by a publish, to the value published, and after
\* a publish it is nothing or that value, so that a subscriber connecting
\* then is not handed an earlier message.
C14_LatestValueOnly ==
    /\ [][/\ gossip' # gossip =>
                /\ last'.op \in {"gossip_publish", "client_publish", "handle"}
                /\ last'.op # "handle" => gossip' = last'.arg
          /\ chain' # chain => (last'.op = "chain_propose" /\ chain' = last'.arg)
         ]_vars
    /\ [](last.op \in {"gossip_publish", "client_publish"} =>
             gossip \in {None, last.arg})
    /\ []((last.op = "chain_propose" /\ last.outcome = "200") =>
             chain \in {None, last.arg})

\* C18: the message a node publishes for an accepted message carries the
\* same task id, the node's stage as source, the output of the execution as
\* input and the incoming clocks map with the node's stage set to the clock
\* proved from the preceding stage's clock (from no clock for the first
\* stage), every other entry unchanged; nothing is published when the
\* execution fails.
C18_StageEmission ==
    [][(last'.op = "handle" /\ gossip # None) =>
          LET n == last'.who
              S == node_stage[n]
              before == gossip[1]
              after == gossip'[1]
              predecessors ==
                  IF PrecedingSource(n) = Start THEN <<>>
                  ELSE <<<<before.clocks[PrecedingSource(n).name], before.input>>>>
          IN  IF last'.outcome = "published"
              THEN /\ after.id = before.id
                   /\ after.source = Name(S)
                   /\ after.input \in ExecOutputs
                   /\ DOMAIN after.clocks = DOMAIN before.clocks \cup {S}
                   /\ \A s \in DOMAIN before.clocks \ {S} :
                         after.clocks[s] = before.clocks[s]
                   /\ after.clocks[S] = prove(n, predecessors, after.input)
              ELSE gossip' = gossip
      ]_vars

C18_Witness ==
    /\ last.op = "handle"
    /\ last.outcome = "published"
    /\ task.stages = <<"a", "b", "c">>
    /\ node_stage[last.who] = "b"
    /\ gossip[1].source = Name("b")
    /\ gossip[1].input = "out"
    /\ DOMAIN gossip[1].clocks = {"a", "b", "c"}
    /\ gossip[1].clocks["c"] = last.arg[1].clocks["c"]

\* ---------------------------------------------------------------- the order
Compared == ordering # None
Cmp(i, j) == ordering[1].cmp[i, j]
AllZero(clock) == \A n \in NodeIds : Count(clock, n) = 0
SameCounts(x, y) == \A n \in NodeIds : Count(x, n) = Count(y, n)
Inverse(o) ==
    CASE o = "Greater" -> "Less"
      [] o = "Less" -> "Greater"
      [] OTHER -> o

\* C15: partial_cmp(A, B) is the inverse of partial_cmp(B, A) for all clocks
\* A and B, and A == A.
C15_Antisymmetry ==
    Compared =>
        \A i, j \in DOMAIN deps :
            /\ Cmp(i, j) = Inverse(Cmp(j, i))
            /\ ordering[1].eq[i, i]

C15_Witness ==
    /\ Compared
    /\ Len(deps) = 3
    /\ Cmp(1, 2) = "Greater" /\ Cmp(2, 1) = "Less"
    /\ Cmp(1, 3) = "None" /\ Cmp(3, 1) = "None"

\* C16: a clock with all entries 0 compares Equal to every clock with all
\* entries 0 and Less than every other clock; a clock produced from it by
\* merge-and-advance steps is never before it nor incomparable with it.
C16_GenesisFirst ==
    /\ Compared =>
          \A i, j \in DOMAIN deps :
              AllZero(deps[i]) =>
                  Cmp(i, j) = (IF AllZero(deps[j]) THEN "Equal" ELSE "Less")
    /\ value # None =>
          /\ partial_cmp(new_genesis, value[1]) =
                (IF AllZero(value[1]) THEN "Equal" ELSE "Less")
          /\ \A k \in DOMAIN deps :
                AllZero(deps[k]) => partial_cmp(deps[k], value[1]) \in {"Less", "Equal"}

C16_Witness ==
    /\ Compared
    /\ value = Some((1 :> 1) @@ (2 :> 0))
    /\ deps = <<(1 :> 0), <<>>, (2 :> 0)>>
    /\ Cmp(1, 2) = "Equal"
    /\ Cmp(2, 3) = "Equal"

\* C19: Greater is irreflexive and transitive; A >= B holds iff A's count
\* (0 when absent) is at least B's count for every node id of B; clocks
\* that differ only by entries with count 0 compare Equal.
C19_StrictPartialOrder ==
    Compared =>
        \A i, j \in DOMAIN deps :
            /\ Cmp(i, i) # "Greater"
            /\ \A k \in DOMAIN deps :
                  (Cmp(i, j) = "Greater" /\ Cmp(j, k) = "Greater") => Cmp(i, k) = "Greater"
            /\ ordering[1].ge[i, j] <=>
                  \A n \in DOMAIN deps[j] : Count(deps[i], n) >= deps[j][n]
            /\ SameCounts(deps[i], deps[j]) => Cmp(i, j) = "Equal"

C19_Witness ==
    /\ Compared
    /\ Len(deps) = 3
    /\ Cmp(1, 2) = "Greater" /\ Cmp(2, 3) = "Greater" /\ Cmp(1, 3) = "Greater"
    /\ deps[3] = (1 :> 0)
    /\ ~ordering[1].ge[3, 2]

\* C20: the clock returned by OrdinaryClock::new compares Greater or Equal
\* with every predecessor, and has an entry only for node ids that have one
\* in some predecessor, or for the producing node.
C20_HistoryKept ==
    value # None =>
        /\ \A k \in DOMAIN deps :
              /\ partial_cmp(value[1], deps[k]) \in {"Greater", "Equal"}
              /\ Dominates(value[1], deps[k])
        /\ DOMAIN value[1] \subseteq UNION {DOMAIN deps[k] : k \in DOMAIN deps} \cup {id}

C20_Witness ==
    /\ value # None
    /\ Len(deps) = 2
    /\ Incomparable(deps[1], deps[2])
    /\ StrictlyAfter(value[1], deps[1])
    /\ StrictlyAfter(value[1], deps[2])

\* ---------------------------------------------------------------- the two verifiers
\* what the function named by returned for the subject
RetOf(by) == verdict[CHOOSE k \in DOMAIN verdict : verdict[k].by = by].ret
BothCalled == Called("chain::verify") /\ Called("TaskResult::verify")
CallSet(ret) == {ret.calls[k] : k \in DOMAIN ret.calls}

\* C21: on the same task result, workflow and context, chain::verify and
\* TaskResult::verify both return Ok or both return an error, and both invoke
\* the context's verify on the same (clock, output) pairs.
C21_VerifiersAgree ==
    BothCalled =>
        /\ (RetOf("chain::verify").result = "Ok")
              <=> (RetOf("TaskResult::verify").result = "Ok")
        /\ CallSet(RetOf("chain::verify")) = CallSet(RetOf("TaskResult::verify"))

C21_Witness ==
    /\ BothCalled
    /\ task.stages = <<"a", "b", "c">>
    /\ context = "Bound"
    /\ CausallyOrdered
    /\ Msg.output = "out"
    /\ RetOf("chain::verify").result = "ContextError"
    /\ RetOf("TaskResult::verify").result = "ContextError"
    /\ CallSet(RetOf("chain::verify")) = {<<Msg.clocks["c"], "out">>}

====
